---- MODULE Spec2Model ----
(***************************************************************************)
(* The three-phase wizard of streamlit_app.py: the session state, the      *)
(* widgets the script reads, the gateway call_cerebras and the handlers    *)
(* of the buttons, together with the JSON conversions (json.loads of the   *)
(* upstream content, json.dumps of the report) the handlers rely on.       *)
(***************************************************************************)
EXTENDS Integers, Sequences, FiniteSets, TLC

(***************************************************************************)
(* JSON values as Python holds them after json.loads.  Every value is a    *)
(* node of one shape: t is the type, n the integer of an int, s the text   *)
(* of a str, c the items of a list or the values of a dict, ks the keys of *)
(* a dict in insertion order.  Floats and booleans do not occur in any of  *)
(* the three schemas and are left out.                                     *)
(***************************************************************************)
JNull == [t |-> "null", n |-> 0, s |-> "", ks |-> <<>>, c |-> <<>>]

JInt(i) == [t |-> "int", n |-> i, s |-> "", ks |-> <<>>, c |-> <<>>]

JStr(x) == [t |-> "str", n |-> 0, s |-> x, ks |-> <<>>, c |-> <<>>]

JArr(items) == [t |-> "arr", n |-> 0, s |-> "", ks |-> <<>>, c |-> items]

JObj(keys, vals) == [t |-> "obj", n |-> 0, s |-> "", ks |-> keys, c |-> vals]

\* Python's None, as the session state and call_cerebras use it.
None == JNull

\* Python truthiness, as `if result:` and `if st.session_state.x:` test it.
Truthy(v) ==
    CASE v.t = "null" -> FALSE
      [] v.t = "int" -> v.n # 0
      [] v.t = "str" -> v.s # ""
      [] v.t = "arr" -> Len(v.c) > 0
      [] v.t = "obj" -> Len(v.ks) > 0

\* d[k] on a dict: HasKey is `k in d`, Get is the value (None stands for KeyError
\* and is only read under HasKey).
HasKey(d, k) == d.t = "obj" /\ \E i \in 1..Len(d.ks) : d.ks[i] = k

Get(d, k) ==
    IF HasKey(d, k)
    THEN d.c[CHOOSE i \in 1..Len(d.ks) : d.ks[i] = k]
    ELSE None

(***************************************************************************)
(* JSON text, as a sequence of tokens (whitespace and indentation carry no *)
(* value and are dropped).  "junk" is any text that is not a JSON token,   *)
(* such as a reply cut off in the middle.                                  *)
(***************************************************************************)
Tok(kind) == [k |-> kind, s |-> "", n |-> 0]

TStr(x) == [k |-> "str", s |-> x, n |-> 0]

TInt(i) == [k |-> "int", s |-> "", n |-> i]

RECURSIVE dumps(_)
RECURSIVE dumpsItems(_, _)
RECURSIVE dumpsPairs(_, _, _)

\* The items of a list, comma separated, from index i on.
dumpsItems(items, i) ==
    IF i > Len(items) THEN <<>>
    ELSE (IF i > 1 THEN <<Tok(",")>> ELSE <<>>)
         \o dumps(items[i]) \o dumpsItems(items, i + 1)

\* The key: value pairs of a dict, comma separated, in insertion order.
dumpsPairs(keys, vals, i) ==
    IF i > Len(keys) THEN <<>>
    ELSE (IF i > 1 THEN <<Tok(",")>> ELSE <<>>)
         \o <<TStr(keys[i]), Tok(":")>> \o dumps(vals[i])
         \o dumpsPairs(keys, vals, i + 1)

\* json.dumps(v, indent=2).
dumps(v) ==
    CASE v.t = "null" -> <<Tok("null")>>
      [] v.t = "int" -> <<TInt(v.n)>>
      [] v.t = "str" -> <<TStr(v.s)>>
      [] v.t = "arr" -> <<Tok("[")>> \o dumpsItems(v.c, 1) \o <<Tok("]")>>
      [] v.t = "obj" -> <<Tok("{")>> \o dumpsPairs(v.ks, v.c, 1) \o <<Tok("}")>>

\* A parse step: ok, the value read and the index of the next token.
Parsed(v, next) == [ok |-> TRUE, v |-> v, next |-> next]

ParseError == [ok |-> FALSE, v |-> JNull, next |-> 0]

\* dict[k] = v on an insertion-ordered dict: a repeated key keeps its first
\* position and takes the last value.
SetKey(keys, vals, k, v) ==
    IF \E i \in 1..Len(keys) : keys[i] = k
    THEN LET i == CHOOSE j \in 1..Len(keys) : keys[j] = k
         IN  <<keys, [vals EXCEPT ![i] = v]>>
    ELSE <<Append(keys, k), Append(vals, v)>>

RECURSIVE ParseValue(_, _)
RECURSIVE ParseItems(_, _, _)
RECURSIVE ParsePairs(_, _, _, _)

\* After "[" and the items read so far: the next item, then "," or "]".
ParseItems(toks, i, items) ==
    LET r == ParseValue(toks, i)
    IN  IF ~r.ok \/ r.next > Len(toks) THEN ParseError
        ELSE LET acc == Append(items, r.v)
             IN  CASE toks[r.next].k = "]" -> Parsed(JArr(acc), r.next + 1)
                   [] toks[r.next].k = "," -> ParseItems(toks, r.next + 1, acc)
                   [] OTHER -> ParseError

\* After "{" and the pairs read so far: a string key, ":", a value, then "," or "}".
ParsePairs(toks, i, keys, vals) ==
    IF i + 1 > Len(toks) \/ toks[i].k # "str" \/ toks[i + 1].k # ":" THEN ParseError
    ELSE LET r == ParseValue(toks, i + 2)
         IN  IF ~r.ok \/ r.next > Len(toks) THEN ParseError
             ELSE LET kv == SetKey(keys, vals, toks[i].s, r.v)
                  IN  CASE toks[r.next].k = "}" ->
                             Parsed(JObj(kv[1], kv[2]), r.next + 1)
                        [] toks[r.next].k = "," ->
                             ParsePairs(toks, r.next + 1, kv[1], kv[2])
                        [] OTHER -> ParseError

\* One JSON value starting at token i.
ParseValue(toks, i) ==
    IF i > Len(toks) THEN ParseError
    ELSE CASE toks[i].k = "null" -> Parsed(JNull, i + 1)
           [] toks[i].k = "int" -> Parsed(JInt(toks[i].n), i + 1)
           [] toks[i].k = "str" -> Parsed(JStr(toks[i].s), i + 1)
           [] toks[i].k = "[" ->
                IF i + 1 <= Len(toks) /\ toks[i + 1].k = "]"
                THEN Parsed(JArr(<<>>), i + 2)
                ELSE ParseItems(toks, i + 1, <<>>)
           [] toks[i].k = "{" ->
                IF i + 1 <= Len(toks) /\ toks[i + 1].k = "}"
                THEN Parsed(JObj(<<>>, <<>>), i + 2)
                ELSE ParsePairs(toks, i + 1, <<>>, <<>>)
           [] OTHER -> ParseError

\* json.loads(text): the value, or not ok where json.loads raises
\* (no value, a malformed value, or extra data after the value).
loads(toks) ==
    LET r == ParseValue(toks, 1)
    IN  IF r.ok /\ r.next = Len(toks) + 1 THEN r ELSE ParseError


(***************************************************************************)
(* The fixed preset table.                                                 *)
(***************************************************************************)
Demo(bt, rule, sc) ==
    JObj(<<"business_type", "current_rule", "scenario">>,
         <<JStr(bt), JStr(rule), JStr(sc)>>)

DemoNames ==
    <<"Software Agency Crisis", "Logistics Company Fuel Crisis",
      "Healthcare Staffing Shortage", "E-commerce Black Friday",
      "Manufacturing Quality Crisis">>

DEMO_SCENARIOS ==
    [name \in {DemoNames[i] : i \in 1..Len(DemoNames)} |->
       CASE name = "Software Agency Crisis" ->
              Demo("High-end Software Agency",
                   "All client change requests must be approved by both the Founder (Revenue Protector) and Lead Architect (Quality Gatekeeper).",
                   "A major client threatens to walk away if a high-risk/high-reward feature is not delivered in 7 days. The feature requires bypassing standard QA protocols.")
         [] name = "Logistics Company Fuel Crisis" ->
              Demo("Mid-sized Regional Logistics/Trucking Company",
                   "Strict driver safety policy: Mandatory 10-hour rest break for every 14 hours on duty. No exceptions.",
                   "Fuel prices spike 40%. Major client demands 'Guaranteed 24-Hour Delivery' with strict penalty clauses. Drivers are pressured to skip rest breaks.")
         [] name = "Healthcare Staffing Shortage" ->
              Demo("Regional Hospital Network",
                   "Mandatory nurse-to-patient ratios (1:4 in general care, 1:2 in ICU). No nurse can work more than 12-hour shifts.",
                   "Flu outbreak causes 30% staff shortage. Emergency room wait times hit 8 hours. Administration considers suspending ratio requirements.")
         [] name = "E-commerce Black Friday" ->
              Demo("Fast-growing E-commerce Startup",
                   "All marketing campaigns must be approved by Legal team for compliance (data privacy, accessibility, claims verification).",
                   "Black Friday is in 48 hours. Marketing team has explosive viral campaign ready but Legal hasn't approved it. Competitors are already running similar campaigns.")
         [] name = "Manufacturing Quality Crisis" ->
              Demo("Electronics Manufacturing Plant",
                   "Zero-defect policy: Any product with defects must be scrapped. Quality inspectors have authority to halt production lines.",
                   "Major retailer threatens to cancel $10M order if shipment is delayed by even 1 day. Current defect rate is 3% (normally 0.5%). Production manager wants to ship anyway.")]

(***************************************************************************)
(* The three schemas, as the conformance they describe: an object whose    *)
(* keys are exactly the required ones (every property is required and      *)
(* additionalProperties is False) with values of the declared types.       *)
(***************************************************************************)
KeySet(v) == {v.ks[i] : i \in 1..Len(v.ks)}

\* {"type": "object", "required": keys, "additionalProperties": False}
IsObject(v, keys) == v.t = "obj" /\ KeySet(v) = keys

\* an object of exactly `keys`, each {"type": "string"}
StringObject(v, keys) ==
    IsObject(v, keys) /\ \A k \in keys : Get(v, k).t = "str"

AgentItem(a) ==
    /\ IsObject(a, {"agent_id", "prior_score", "persona", "description"})
    /\ Get(a, "agent_id").t = "str"
    /\ Get(a, "prior_score").t = "int"
    /\ Get(a, "persona").t = "str"
    /\ Get(a, "description").t = "str"

\* {"type": "array", "items": ...}: a list whose every item conforms.
AgentItems(v) == v.t = "arr" /\ \A i \in 1..Len(v.c) : AgentItem(v.c[i])

SPECTRUM_SCHEMA(v) ==
    /\ IsObject(v, {"critical_conflict", "agent_spectrum"})
    /\ IsObject(Get(v, "critical_conflict"),
                {"psychological_prior", "operational_constraint"})
    /\ StringObject(Get(Get(v, "critical_conflict"), "psychological_prior"),
                    {"name", "scale_description"})
    /\ StringObject(Get(Get(v, "critical_conflict"), "operational_constraint"),
                    {"name", "description"})
    /\ AgentItems(Get(v, "agent_spectrum"))

TimelineItem(e) ==
    /\ IsObject(e, {"time_step", "agent_activity", "approval_status",
                    "system_risk_score", "narrative_outcome"})
    /\ Get(e, "time_step").t = "str"
    /\ Get(e, "agent_activity").t = "str"
    /\ Get(e, "approval_status").t = "str"
    /\ Get(e, "system_risk_score").t = "int"
    /\ Get(e, "narrative_outcome").t = "str"

\* {"type": "array", "items": ...}: a list whose every item conforms.
TimelineItems(v) == v.t = "arr" /\ \A i \in 1..Len(v.c) : TimelineItem(v.c[i])

SIMULATION_SCHEMA(v) ==
    /\ IsObject(v, {"timeline", "tipping_point"})
    /\ TimelineItems(Get(v, "timeline"))
    /\ StringObject(Get(v, "tipping_point"), {"day", "description"})

SolutionItem(x) ==
    StringObject(x, {"solution_name", "description", "implementation",
                     "prescriptive_action_plan"})

\* {"type": "array", "items": ...}: a list whose every item conforms.
SolutionItems(v) == v.t = "arr" /\ \A i \in 1..Len(v.c) : SolutionItem(v.c[i])

ANALYSIS_SCHEMA(v) ==
    /\ IsObject(v, {"structural_patterns", "diagnosis", "proposed_solutions"})
    /\ StringObject(Get(v, "structural_patterns"),
                    {"fracture", "tipping_point", "mechanism_of_failure"})
    /\ StringObject(Get(v, "diagnosis"), {"mechanism_failure", "driver_failure"})
    /\ SolutionItems(Get(v, "proposed_solutions"))

\* The schema a call names.
Conforms(schema_name, v) ==
    CASE schema_name = "spectrum_schema" -> SPECTRUM_SCHEMA(v)
      [] schema_name = "simulation_schema" -> SIMULATION_SCHEMA(v)
      [] schema_name = "analysis_schema" -> ANALYSIS_SCHEMA(v)


(***************************************************************************)
(* Bounds of the model.                                                    *)
(***************************************************************************)
\* The longest agent_spectrum the external model returns.
MaxAgents == 2

\* The most analysis calls the user issues in one scenario run.
MaxCalls == 2

(***************************************************************************)
(* What the external model can answer.  The client either raises           *)
(* (transport, authentication, rejected request) or returns a completion   *)
(* whose content is some text: the code asks for strict structured output  *)
(* but reads the content as it comes.                                      *)
(***************************************************************************)
Raises == [raises |-> TRUE, content |-> <<>>]

Content(toks) == [raises |-> FALSE, content |-> toks]

StrObj(keys) == JObj(keys, [i \in 1..Len(keys) |-> JStr("x")])

Agent(id) ==
    JObj(<<"agent_id", "prior_score", "persona", "description">>,
         <<JStr(id), JInt(7), JStr("x"), JStr("x")>>)

AgentIds == {"A1", "A2"}

\* Every sequence of agent ids up to MaxAgents long (repeats included).
AgentIdSeqs == UNION {[1..len -> AgentIds] : len \in 0..MaxAgents}

Conflict ==
    JObj(<<"psychological_prior", "operational_constraint">>,
         <<StrObj(<<"name", "scale_description">>),
           StrObj(<<"name", "description">>)>>)

Spectrum(ids) ==
    JObj(<<"critical_conflict", "agent_spectrum">>,
         <<Conflict, JArr([i \in 1..Len(ids) |-> Agent(ids[i])])>>)

Event(day, risk) ==
    JObj(<<"time_step", "agent_activity", "approval_status",
           "system_risk_score", "narrative_outcome">>,
         <<JStr(day), JStr("x"), JStr("x"), JInt(risk), JStr("x")>>)

Simulation(events) ==
    JObj(<<"timeline", "tipping_point">>,
         <<JArr(events), StrObj(<<"day", "description">>)>>)

Analysis(solutions) ==
    JObj(<<"structural_patterns", "diagnosis", "proposed_solutions">>,
         <<StrObj(<<"fracture", "tipping_point", "mechanism_of_failure">>),
           StrObj(<<"mechanism_failure", "driver_failure">>),
           JArr(solutions)>>)

Solution ==
    StrObj(<<"solution_name", "description", "implementation",
             "prescriptive_action_plan">>)

\* Replies that are JSON but fit no schema, and text that is not JSON.
Unrelated == JObj(<<"error">>, <<JStr("x")>>)

CutOff == <<Tok("{"), TStr("timeline"), Tok(":"), Tok("[")>>

\* The same key twice in one object, which json.loads accepts.
Repeated ==
    <<Tok("{"), TStr("error"), Tok(":"), TInt(1), Tok(","),
      TStr("error"), Tok(":"), TInt(2), Tok("}")>>

Malformed ==
    {Raises, Content(<<>>), Content(CutOff), Content(<<Tok("junk")>>),
     Content(dumps(JNull)), Content(dumps(JObj(<<>>, <<>>))),
     Content(dumps(JArr(<<>>))), Content(dumps(JInt(0))),
     Content(dumps(Unrelated)), Content(Repeated)}

Upstream(schema_name) ==
    Malformed \cup
    CASE schema_name = "spectrum_schema" ->
           {Content(dumps(Spectrum(ids))) : ids \in AgentIdSeqs}
      [] schema_name = "simulation_schema" ->
           {Content(dumps(Simulation(<<>>))),
            Content(dumps(Simulation(<<Event("Day 1", 0), Event("Day 2", 10)>>)))}
      [] schema_name = "analysis_schema" ->
           {Content(dumps(Analysis(<<>>))), Content(dumps(Analysis(<<Solution>>)))}

\* One failure and one answer that fits the schema and renders.
UpstreamFew(schema_name) ==
    {Raises} \cup
    CASE schema_name = "spectrum_schema" ->
           {Content(dumps(Spectrum(<<"A1">>)))}
      [] schema_name = "simulation_schema" ->
           {Content(dumps(Simulation(<<Event("Day 1", 0)>>)))}
      [] schema_name = "analysis_schema" ->
           {Content(dumps(Analysis(<<Solution>>)))}

(***************************************************************************)
(* call_cerebras: one request; the content is parsed with json.loads and   *)
(* returned as parsed; any exception (of the client or of json.loads) is   *)
(* reported and None is returned.                                          *)
(***************************************************************************)
call_cerebras(reply) ==
    IF reply.raises THEN None
    ELSE LET r == loads(reply.content)
         IN  IF r.ok THEN r.v ELSE None


(***************************************************************************)
(* The prompts, as the values each one interpolates.                       *)
(***************************************************************************)
SpectrumPrompt(bt, rule, sc) ==
    [business_type |-> bt, current_rule |-> rule, scenario |-> sc]

SimulationPrompt(days, context, spectrum) ==
    [run_days |-> days,
     business_type |-> Get(context, "business_type"),
     scenario |-> Get(context, "scenario"),
     current_rule |-> Get(context, "current_rule"),
     prior |-> Get(Get(Get(spectrum, "critical_conflict"),
                       "psychological_prior"), "name"),
     constraint |-> Get(Get(Get(spectrum, "critical_conflict"),
                            "operational_constraint"), "name"),
     agents |-> dumps(Get(spectrum, "agent_spectrum")),
     task_days |-> days]

AnalysisPrompt(context, simulation) ==
    [business_type |-> Get(context, "business_type"),
     simulation |-> dumps(simulation)]

(***************************************************************************)
(* What a render needs of the stored data: a subscript of a missing key    *)
(* raises and ends the script run before the widgets below it exist.       *)
(***************************************************************************)
HasKeys(v, keys) == \A k \in keys : HasKey(v, k)

\* Phase 2, down to the slider and the Run Simulation button.
SpectrumRenders(spectrum) ==
    /\ HasKey(spectrum, "critical_conflict")
    /\ HasKey(Get(Get(spectrum, "critical_conflict"), "psychological_prior"), "name")
    /\ HasKey(Get(Get(spectrum, "critical_conflict"), "operational_constraint"), "name")
    /\ HasKey(spectrum, "agent_spectrum")
    /\ LET agents == Get(spectrum, "agent_spectrum")
       IN  /\ agents.t = "arr"
           /\ Len(agents.c) > 0
           /\ \A i \in 1..Len(agents.c) :
                HasKeys(agents.c[i],
                        {"agent_id", "prior_score", "persona", "description"})

\* Phase 3, section A: the risk chart, the tipping point and the log.
SimulationRenders(sim) ==
    /\ HasKey(sim, "timeline")
    /\ LET timeline == Get(sim, "timeline")
       IN  /\ timeline.t = "arr"
           /\ Len(timeline.c) > 0
           /\ \A i \in 1..Len(timeline.c) :
                HasKeys(timeline.c[i],
                        {"time_step", "system_risk_score", "approval_status",
                         "narrative_outcome"})
    /\ HasKeys(Get(sim, "tipping_point"), {"day", "description"})

\* Phase 3, the display of the analysis, down to the footer actions.
AnalysisRenders(analysis) ==
    /\ HasKeys(Get(analysis, "structural_patterns"),
               {"fracture", "tipping_point", "mechanism_of_failure"})
    /\ HasKeys(Get(analysis, "diagnosis"), {"mechanism_failure", "driver_failure"})
    /\ HasKey(analysis, "proposed_solutions")
    /\ LET solutions == Get(analysis, "proposed_solutions")
       IN  /\ solutions.t = "arr"
           /\ \A i \in 1..Len(solutions.c) :
                HasKeys(solutions.c[i],
                        {"solution_name", "description", "implementation",
                         "prescriptive_action_plan"})

(***************************************************************************)
(* The slider of the simulation duration.                                  *)
(***************************************************************************)
SliderMin == 3

SliderMax == 7

SliderDefault == 5

\* The positions a user may try to drag the slider to.
SliderTry == (SliderMin - 1)..(SliderMax + 1)

\* slider without the check of the upper end of the range.
sliderNoUpper(min_value, max_value, v) == min_value <= v

\* st.slider(label, min_value, max_value, value): the control only takes a
\* position inside its range.
slider(min_value, max_value, v) == min_value <= v /\ v <= max_value

\* What the user types into a text field.
Typed == {"", "Corner bakery", "Cash only"}

(***************************************************************************)
(* State.  The six keys of st.session_state; the values the widgets of the *)
(* page hold (business_type, current_rule, scenario, simulation_days) and  *)
(* prefilled, whether the three fields on the page were created with a     *)
(* preset as their value; pc, "idle" when a script run has ended and the   *)
(* page waits for the user, "rerun" when st.rerun() has asked for another  *)
(* run ("start" and "stopped" belong to the first run, see Startup);       *)
(* api_key, the CEREBRAS_API_KEY of the environment.  The sessions other   *)
(* than the one being served are kept in others, and current is the id of  *)
(* the one being served.  The remaining variables record the last step:    *)
(* action is the handler that ran, called the schema_name of its gateway   *)
(* call ("none" without a call), requests the upstream requests it made,   *)
(* messages the prompt it sent, result what call_cerebras returned,        *)
(* download the report it handed to the browser (empty when the step was   *)
(* no download); analysis_calls and analysis_stored count the analysis     *)
(* calls issued and stored since the scenario run began.                   *)
(***************************************************************************)
VARIABLES phase, business_context, spectrum_data, simulation_data,
          analysis_data, selected_demo, business_type, current_rule, scenario,
          simulation_days, prefilled, download, pc, action, called, requests,
          messages, result, analysis_calls, analysis_stored, api_key, others,
          current

session == <<phase, business_context, spectrum_data, simulation_data,
             analysis_data, selected_demo>>

widgets == <<business_type, current_rule, scenario, simulation_days, prefilled>>

counters == <<analysis_calls, analysis_stored>>

\* What does not belong to the session being served.
shared == <<api_key, others, current>>

vars == <<session, widgets, download, pc, action, called, requests, messages,
          result, counters, shared>>

\* The session state the script sets up on the first run of a session.
NewSession ==
    /\ phase = 1
    /\ business_context = JObj(<<>>, <<>>)
    /\ spectrum_data = None
    /\ simulation_data = None
    /\ analysis_data = None
    /\ selected_demo = None
    /\ business_type = ""
    /\ current_rule = ""
    /\ scenario = ""
    /\ simulation_days = SliderDefault
    /\ prefilled = FALSE
    /\ analysis_calls = 0
    /\ analysis_stored = 0

\* No step has run yet.
NoStepYet ==
    /\ download = <<>>
    /\ action = "init"
    /\ called = "none"
    /\ requests = 0
    /\ messages = <<>>
    /\ result = None

\* One session, its first run done with the credential in place.
Init ==
    /\ NewSession
    /\ NoStepYet
    /\ pc = "idle"
    /\ api_key = JStr("csk-key")
    /\ others = <<>>
    /\ current = 1

\* A step that makes no gateway call and hands out no download.
NoCall ==
    /\ called' = "none"
    /\ requests' = 0
    /\ messages' = <<>>
    /\ result' = None
    /\ download' = <<>>
    /\ UNCHANGED shared

\* The answers a call is given: all of Upstream when one session is served,
\* the few of UpstreamFew when several are.
Replies(schema_name) ==
    IF DOMAIN others = {} THEN Upstream(schema_name)
    ELSE UpstreamFew(schema_name)

\* call_cerebras with a retry after a reply that raises.
UpstreamRequestsRetry(reply) == IF reply.raises THEN 2 ELSE 1

\* The requests one call_cerebras makes: one client.chat.completions.create,
\* whatever comes back.
UpstreamRequests(reply) == 1

\* A step that calls call_cerebras(msgs, schema, schema_name), is answered
\* reply and gets r.
Call(schema_name, msgs, reply, r) ==
    /\ called' = schema_name
    /\ requests' = UpstreamRequests(reply)
    /\ messages' = msgs
    /\ result' = r
    /\ download' = <<>>
    /\ UNCHANGED shared

(***************************************************************************)
(* Phase 1: the demo buttons, the three text fields and the Generate       *)
(* Spectrum Analysis button.                                               *)
(***************************************************************************)
\* A demo button: the preset is left in selected_demo and the script reruns.
SelectDemo(name) ==
    /\ pc = "idle"
    /\ phase = 1
    /\ selected_demo' = DEMO_SCENARIOS[name]
    /\ pc' = "rerun"
    /\ action' = "demo"
    /\ NoCall
    /\ UNCHANGED <<phase, business_context, spectrum_data, simulation_data,
                   analysis_data, widgets, counters>>

\* What a text field gives the script run that handles a user event.  The
\* run computes the defaults anew and selected_demo was cleared by the run
\* that used it, so the run passes value="" again.  A field that is on the
\* page with a preset as its value is another widget to the framework (a
\* widget without a key is told apart by its label and its value argument),
\* and the one the run creates starts from "".
Entered(x) == IF prefilled THEN "" ELSE x

\* The user edits one of the three text fields (an edit made to a prefilled
\* field goes with the widget that was on the page).
TypeInput(field, text) ==
    /\ pc = "idle"
    /\ phase = 1
    /\ business_type' =
         IF field = "business_type" /\ ~prefilled THEN text
         ELSE Entered(business_type)
    /\ current_rule' =
         IF field = "current_rule" /\ ~prefilled THEN text
         ELSE Entered(current_rule)
    /\ scenario' =
         IF field = "scenario" /\ ~prefilled THEN text ELSE Entered(scenario)
    /\ prefilled' = FALSE
    /\ action' = "type"
    /\ NoCall
    /\ UNCHANGED <<session, simulation_days, pc, counters>>

\* Prefill with the rule and the scenario of the preset exchanged.
PrefillSwapped(demo) ==
    /\ business_type' = Get(demo, "business_type").s
    /\ current_rule' = Get(demo, "scenario").s
    /\ scenario' = Get(demo, "current_rule").s

\* The defaults of the three fields when a demo was selected.
Prefill(demo) ==
    /\ business_type' = Get(demo, "business_type").s
    /\ current_rule' = Get(demo, "current_rule").s
    /\ scenario' = Get(demo, "scenario").s

\* disabled=not (business_type and current_rule and scenario), as the last
\* run put the button on the page.
GenerateEnabled == business_type # "" /\ current_rule # "" /\ scenario # ""

\* Stored with the test of the result left out.
StoredAlways(r) == TRUE

\* `if result:` of the three handlers.
Stored(r) == Truthy(r)

\* StoreSpectrum that leaves business_context as it finds it.
StoreSpectrumKeepsContext(r) ==
    /\ spectrum_data' = r
    /\ phase' = 2
    /\ pc' = "rerun"
    /\ UNCHANGED <<business_context, simulation_data, analysis_data,
                   selected_demo>>

\* The Phase 1 handler on a result it keeps.
StoreSpectrum(r) ==
    /\ spectrum_data' = r
    /\ business_context' =
         JObj(<<"business_type", "scenario", "current_rule">>,
              <<JStr(Entered(business_type)), JStr(Entered(scenario)),
                JStr(Entered(current_rule))>>)
    /\ phase' = 2
    /\ pc' = "rerun"
    /\ UNCHANGED <<simulation_data, analysis_data, selected_demo>>

GenerateSpectrum ==
    /\ pc = "idle"
    /\ phase = 1
    /\ GenerateEnabled
    /\ \E reply \in Replies("spectrum_schema") :
         LET r == call_cerebras(reply)
         IN  /\ Call("spectrum_schema",
                     SpectrumPrompt(Entered(business_type), Entered(current_rule),
                                    Entered(scenario)), reply, r)
             /\ IF Stored(r) THEN StoreSpectrum(r) ELSE UNCHANGED <<session, pc>>
    /\ business_type' = Entered(business_type)
    /\ current_rule' = Entered(current_rule)
    /\ scenario' = Entered(scenario)
    /\ prefilled' = FALSE
    /\ action' = "generate"
    /\ UNCHANGED <<simulation_days, counters>>

(***************************************************************************)
(* Phase 2: the slider and the Run Simulation button, which exist once the *)
(* spectrum above them has rendered.                                       *)
(***************************************************************************)
Phase2Ready ==
    /\ pc = "idle"
    /\ phase = 2
    /\ Truthy(spectrum_data)
    /\ SpectrumRenders(spectrum_data)

MoveSlider(v) ==
    /\ Phase2Ready
    /\ slider(SliderMin, SliderMax, v)
    /\ simulation_days' = v
    /\ action' = "slider"
    /\ NoCall
    /\ UNCHANGED <<session, business_type, current_rule, scenario, prefilled, pc,
                   counters>>

\* StoreSimulation sending the wizard back to Phase 1.
StoreSimulationBack(r) ==
    /\ simulation_data' = r
    /\ phase' = 1
    /\ pc' = "rerun"
    /\ UNCHANGED <<business_context, spectrum_data, analysis_data, selected_demo>>

\* StoreSimulation that also drops the spectrum it was run on.
StoreSimulationDropsSpectrum(r) ==
    /\ simulation_data' = r
    /\ spectrum_data' = None
    /\ phase' = 3
    /\ pc' = "rerun"
    /\ UNCHANGED <<business_context, analysis_data, selected_demo>>

\* The Phase 2 handler on a result it keeps.
StoreSimulation(r) ==
    /\ simulation_data' = r
    /\ phase' = 3
    /\ pc' = "rerun"
    /\ UNCHANGED <<business_context, spectrum_data, analysis_data, selected_demo>>

RunSimulation ==
    /\ Phase2Ready
    /\ HasKeys(business_context, {"business_type", "scenario", "current_rule"})
    /\ \E reply \in Replies("simulation_schema") :
         LET r == call_cerebras(reply)
         IN  /\ Call("simulation_schema",
                     SimulationPrompt(simulation_days, business_context,
                                      spectrum_data), reply, r)
             /\ IF Stored(r) THEN StoreSimulation(r) ELSE UNCHANGED <<session, pc>>
    /\ action' = "simulate"
    /\ UNCHANGED <<widgets, counters>>

(***************************************************************************)
(* Phase 3: the simulation view, the Generate Structural Analysis button   *)
(* while no analysis is stored, and the analysis with its footer actions   *)
(* once one is.                                                            *)
(***************************************************************************)
Phase3Ready ==
    /\ pc = "idle"
    /\ phase = 3
    /\ Truthy(simulation_data) => SimulationRenders(simulation_data)

\* AnalysisPending with the button on the page whatever is stored.
AnalysisAlwaysOffered == TRUE

\* `if not st.session_state.analysis_data:` the button is on the page.
AnalysisPending == ~Truthy(analysis_data)

\* The Phase 3 handler on a result it keeps.
StoreAnalysis(r) ==
    /\ analysis_data' = r
    /\ pc' = "rerun"
    /\ analysis_stored' = analysis_stored + 1
    /\ UNCHANGED <<phase, business_context, spectrum_data, simulation_data,
                   selected_demo>>

GenerateAnalysis ==
    /\ Phase3Ready
    /\ AnalysisPending
    /\ HasKey(business_context, "business_type")
    /\ analysis_calls < MaxCalls
    /\ \E reply \in Replies("analysis_schema") :
         LET r == call_cerebras(reply)
         IN  /\ Call("analysis_schema",
                     AnalysisPrompt(business_context, simulation_data), reply, r)
             /\ IF Stored(r) THEN StoreAnalysis(r)
                ELSE UNCHANGED <<session, pc, analysis_stored>>
    /\ analysis_calls' = analysis_calls + 1
    /\ action' = "analyze"
    /\ UNCHANGED widgets

\* The footer drawn in Phase 3 whether or not an analysis is stored.
FooterAlways == Phase3Ready

\* The footer: the analysis is stored and its display has rendered.
FooterReady ==
    /\ Phase3Ready
    /\ Truthy(analysis_data)
    /\ AnalysisRenders(analysis_data)

\* full_report with the spectrum and the simulation under each other's key.
full_reportSwapped ==
    JObj(<<"context", "spectrum", "simulation", "analysis">>,
         <<business_context, simulation_data, spectrum_data, analysis_data>>)

full_report ==
    JObj(<<"context", "spectrum", "simulation", "analysis">>,
         <<business_context, spectrum_data, simulation_data, analysis_data>>)

\* The download button hands out json.dumps(full_report, indent=2).
Export ==
    /\ FooterReady
    /\ download' = dumps(full_report)
    /\ action' = "export"
    /\ called' = "none"
    /\ requests' = 0
    /\ messages' = <<>>
    /\ result' = None
    /\ UNCHANGED shared
    /\ UNCHANGED <<session, widgets, pc, counters>>

\* ResetSession with simulation_data missing from the cleared keys.
ResetSessionKeepsSimulation ==
    /\ spectrum_data' = None
    /\ analysis_data' = None
    /\ phase' = 1
    /\ UNCHANGED <<business_context, simulation_data, selected_demo>>

\* What Start New Scenario does to the session.
ResetSession ==
    /\ spectrum_data' = None
    /\ simulation_data' = None
    /\ analysis_data' = None
    /\ phase' = 1
    /\ UNCHANGED <<business_context, selected_demo>>

StartNewScenario ==
    /\ FooterReady
    /\ ResetSession
    /\ pc' = "rerun"
    /\ analysis_calls' = 0
    /\ analysis_stored' = 0
    /\ action' = "reset"
    /\ NoCall
    /\ UNCHANGED widgets

(***************************************************************************)
(* The script run st.rerun() asks for.  No widget has fired, so the run    *)
(* only renders: in Phase 1 a pending demo becomes the value of the three  *)
(* fields and is cleared; the widgets of a phase that is no longer         *)
(* rendered lose their values and start from their defaults again.         *)
(***************************************************************************)
\* A run that uses the preset and leaves it in the session.
ApplyDemoKeep ==
    /\ Prefill(selected_demo)
    /\ prefilled' = TRUE
    /\ UNCHANGED selected_demo

\* The run that finds a preset: the fields are created with its values and
\* the preset is cleared in the same run.
ApplyDemo ==
    /\ Prefill(selected_demo)
    /\ prefilled' = TRUE
    /\ selected_demo' = None

Rerun ==
    /\ pc = "rerun"
    /\ pc' = "idle"
    /\ action' = "rerun"
    /\ NoCall
    /\ IF phase = 1
       THEN /\ IF Truthy(selected_demo)
               THEN ApplyDemo
               ELSE UNCHANGED <<business_type, current_rule, scenario,
                                prefilled, selected_demo>>
            /\ UNCHANGED simulation_days
       ELSE /\ business_type' = ""
            /\ current_rule' = ""
            /\ scenario' = ""
            /\ simulation_days' = SliderDefault
            /\ prefilled' = FALSE
            /\ UNCHANGED selected_demo
    /\ UNCHANGED <<phase, business_context, spectrum_data, simulation_data,
                   analysis_data, counters>>

Next ==
    \/ \E name \in DOMAIN DEMO_SCENARIOS : SelectDemo(name)
    \/ \E field \in {"business_type", "current_rule", "scenario"} :
         \E text \in Typed : TypeInput(field, text)
    \/ GenerateSpectrum
    \/ \E v \in SliderTry : MoveSlider(v)
    \/ RunSimulation
    \/ GenerateAnalysis
    \/ Export
    \/ StartNewScenario
    \/ Rerun

Spec == Init /\ [][Next]_vars

(***************************************************************************)
(* The first script run of a session.  get_cerebras_client reads the       *)
(* credential; without one it reports the error and st.stop() ends the     *)
(* run there, before the session state is set up and before any widget     *)
(* exists.  A reload of the page runs the script from the top again.       *)
(***************************************************************************)
\* session_state has no 'phase' key.
NoPhase == 0

\* get_cerebras_client taking whatever the environment holds.
KeyFoundAlways(key) == TRUE

\* `if not api_key:` is not taken.
KeyFound(key) == Truthy(key)

\* What CEREBRAS_API_KEY can be: not in the environment, empty, a key.
ApiKeys == {None, JStr(""), JStr("csk-key")}

Startup ==
    /\ pc \in {"start", "stopped"}
    /\ IF KeyFound(api_key)
       THEN /\ phase' = 1
            /\ business_context' = JObj(<<>>, <<>>)
            /\ pc' = "idle"
            /\ action' = "start"
       ELSE /\ pc' = "stopped"
            /\ action' = "halt"
            /\ UNCHANGED <<phase, business_context>>
    /\ NoCall
    /\ UNCHANGED <<spectrum_data, simulation_data, analysis_data,
                   selected_demo, widgets, counters>>

\* A browser opens the page: the script has not run for the session.
InitStartup ==
    /\ api_key \in ApiKeys
    /\ pc = "start"
    /\ phase = NoPhase
    /\ business_context = None
    /\ spectrum_data = None
    /\ simulation_data = None
    /\ analysis_data = None
    /\ selected_demo = None
    /\ business_type = ""
    /\ current_rule = ""
    /\ scenario = ""
    /\ simulation_days = SliderDefault
    /\ prefilled = FALSE
    /\ analysis_calls = 0
    /\ analysis_stored = 0
    /\ NoStepYet
    /\ others = <<>>
    /\ current = 1

NextStartup ==
    \/ Startup
    \/ Next

SpecStartup == InitStartup /\ [][NextStartup]_vars

(***************************************************************************)
(* Several browser sessions on one server.  Streamlit gives each session   *)
(* its own st.session_state and its own widget state and runs the script   *)
(* for one session at a time per step; the script keeps nothing at module  *)
(* level but the cached client, which the sessions share and never write.  *)
(* The variables hold the session being served; others holds the rest.     *)
(***************************************************************************)
Sessions == {1, 2}

\* What belongs to the session being served.
Snapshot ==
    [phase |-> phase, business_context |-> business_context,
     spectrum_data |-> spectrum_data, simulation_data |-> simulation_data,
     analysis_data |-> analysis_data, selected_demo |-> selected_demo,
     business_type |-> business_type, current_rule |-> current_rule,
     scenario |-> scenario, simulation_days |-> simulation_days,
     prefilled |-> prefilled, pc |-> pc, analysis_calls |-> analysis_calls,
     analysis_stored |-> analysis_stored]

\* A session after its first run.
NewSnapshot ==
    [phase |-> 1, business_context |-> JObj(<<>>, <<>>),
     spectrum_data |-> None, simulation_data |-> None,
     analysis_data |-> None, selected_demo |-> None,
     business_type |-> "", current_rule |-> "", scenario |-> "",
     simulation_days |-> SliderDefault, prefilled |-> FALSE, pc |-> "idle",
     analysis_calls |-> 0, analysis_stored |-> 0]

\* The state of session s, served or not.
View(s) == IF s = current THEN Snapshot ELSE others[s]

\* Serving session s on the state of the session served before it, as if
\* the state were kept at module level.
SwitchSessionShared(s) ==
    /\ s \in DOMAIN others
    /\ current' = s
    /\ others' = [t \in (DOMAIN others \ {s}) \cup {current} |->
                    IF t = current THEN others[s] ELSE others[t]]
    /\ UNCHANGED <<session, widgets, pc, counters>>

\* The server turns to session s: what the script reads and writes from
\* here on is the state of s.
SwitchSession(s) ==
    /\ s \in DOMAIN others
    /\ current' = s
    /\ others' = [t \in (DOMAIN others \ {s}) \cup {current} |->
                    IF t = current THEN Snapshot ELSE others[t]]
    /\ phase' = others[s].phase
    /\ business_context' = others[s].business_context
    /\ spectrum_data' = others[s].spectrum_data
    /\ simulation_data' = others[s].simulation_data
    /\ analysis_data' = others[s].analysis_data
    /\ selected_demo' = others[s].selected_demo
    /\ business_type' = others[s].business_type
    /\ current_rule' = others[s].current_rule
    /\ scenario' = others[s].scenario
    /\ simulation_days' = others[s].simulation_days
    /\ prefilled' = others[s].prefilled
    /\ pc' = others[s].pc
    /\ analysis_calls' = others[s].analysis_calls
    /\ analysis_stored' = others[s].analysis_stored

\* The step between the runs of two sessions.
Serve(s) ==
    /\ SwitchSession(s)
    /\ action' = "switch"
    /\ called' = "none"
    /\ requests' = 0
    /\ messages' = <<>>
    /\ result' = None
    /\ download' = <<>>
    /\ UNCHANGED api_key

InitSessions ==
    /\ NewSession
    /\ NoStepYet
    /\ pc = "idle"
    /\ api_key = JStr("csk-key")
    /\ current = 1
    /\ others = [s \in Sessions \ {1} |-> NewSnapshot]

NextSessions ==
    \/ \E s \in Sessions : Serve(s)
    \/ SelectDemo("Software Agency Crisis")
    \/ \E field \in {"business_type", "current_rule", "scenario"} :
         TypeInput(field, "Corner bakery")
    \/ GenerateSpectrum
    \/ MoveSlider(SliderMin)
    \/ RunSimulation
    \/ GenerateAnalysis
    \/ Export
    \/ StartNewScenario
    \/ Rerun

SpecSessions == InitSessions /\ [][NextSessions]_vars

(***************************************************************************)
(* The properties.                                                         *)
(***************************************************************************)
data == <<phase, business_context, spectrum_data, simulation_data, analysis_data>>

\* C1: in no step does phase decrease, except in the step of Start New
\* Scenario, after which phase is exactly 1 (so no step takes phase from 2 to 1
\* or from 3 to 2).
C1_PhaseNeverDecreases ==
    [][phase' >= phase \/ (action' = "reset" /\ phase' = 1)]_vars

\* C1 witness: the reset has just taken a finished scenario back to Phase 1.
C1_Witness == action = "reset" /\ pc = "rerun" /\ phase = 1

\* C2: a step whose gateway call returns None leaves phase, business_context,
\* spectrum_data, simulation_data and analysis_data as they were.
C2_FailureLeavesSession ==
    [][(called' # "none" /\ result' = None) => UNCHANGED data]_vars

\* C2 witness: a failed simulation call in Phase 2, the spectrum still stored.
C2_Witness ==
    /\ called = "simulation_schema"
    /\ result = None
    /\ phase = 2
    /\ Truthy(spectrum_data)

\* The agent_id values of a stored spectrum, in order.
AgentIdsOf(spectrum) ==
    LET agents == Get(spectrum, "agent_spectrum")
    IN  [i \in 1..Len(agents.c) |-> Get(agents.c[i], "agent_id")]

\* C3: in every state with phase >= 2, the agent_spectrum of the stored
\* SpectrumResult (a result that conforms to SPECTRUM_SCHEMA) is non-empty
\* and no agent_id occurs in it twice.
C3_SpectrumNonEmptyUnique ==
    (phase >= 2 /\ SPECTRUM_SCHEMA(spectrum_data)) =>
      /\ Get(spectrum_data, "agent_spectrum").t = "arr"
      /\ Len(AgentIdsOf(spectrum_data)) > 0
      /\ \A i, j \in 1..Len(AgentIdsOf(spectrum_data)) :
           i # j => AgentIdsOf(spectrum_data)[i] # AgentIdsOf(spectrum_data)[j]

\* C4 as claimed: after the reset phase is 1, the three results are cleared
\* and nothing of the finished scenario's context is left in the session.
C4_ResetDiscardsContext ==
    action = "reset" =>
      /\ phase = 1
      /\ spectrum_data = None /\ simulation_data = None /\ analysis_data = None
      /\ ~HasKey(business_context, "business_type")
      /\ ~HasKey(business_context, "current_rule")
      /\ ~HasKey(business_context, "scenario")

\* C4, amended: the reset leaves phase = 1 and the three results cleared, and
\* leaves business_context as it was, still holding the business_type,
\* current_rule and scenario of the finished scenario.
C4_ResetKeepsContext ==
    [][action' = "reset" =>
         /\ phase' = 1
         /\ spectrum_data' = None /\ simulation_data' = None
         /\ analysis_data' = None
         /\ business_context' = business_context
         /\ HasKeys(business_context',
                    {"business_type", "current_rule", "scenario"})]_vars

\* C4 witness: a reset session that still holds the finished scenario's context.
C4_Witness ==
    /\ action = "reset"
    /\ spectrum_data = None
    /\ Get(business_context, "business_type") = JStr("Corner bakery")

\* C5: every result stored in spectrum_data, simulation_data or
\* analysis_data conforms to the schema its call named.
C5_StoredConforms ==
    /\ spectrum_data # None => Conforms("spectrum_schema", spectrum_data)
    /\ simulation_data # None => Conforms("simulation_schema", simulation_data)
    /\ analysis_data # None => Conforms("analysis_schema", analysis_data)

\* C6: from a state where analysis_data is set, no step issues an analysis
\* call, and analysis_data keeps its value in every step but the reset.
C6_NoSecondAnalysis ==
    [][analysis_data # None =>
         /\ called' # "analysis_schema"
         /\ (analysis_data' = analysis_data \/ action' = "reset")]_vars

\* C6 witness: a user action taken while the analysis is on display.
C6_Witness == action = "export" /\ analysis_data # None /\ phase = 3

\* C7 as claimed: at most one analysis call is issued per scenario run.
C7_OneAnalysisCall == analysis_calls <= 1

\* C7, amended: per scenario run at most one analysis call has its result
\* stored, and once it is stored no further call is issued before the reset;
\* a call whose result is not stored may be repeated.
C7_OneAnalysisStored ==
    /\ analysis_stored <= 1
    /\ analysis_stored = 1 <=> analysis_data # None
    /\ (analysis_stored = 1 /\ called = "analysis_schema") => result = analysis_data

\* C7 witness: a failed analysis call followed by the one that was stored.
C7_Witness == analysis_calls = 2 /\ analysis_stored = 1

\* C8: the slider always holds an integer of 3..7, and every simulation
\* prompt carries such a duration in both places it names it.
C8_DurationInRange ==
    /\ simulation_days \in 3..7
    /\ called = "simulation_schema" =>
         messages.run_days \in 3..7 /\ messages.task_days \in 3..7

\* C8 witness: a simulation call after the slider was moved to its upper end.
C8_Witness == called = "simulation_schema" /\ messages.run_days = 7

\* C9: a demo click and the render it asks for make no gateway call and
\* leave phase and the four data keys unchanged; the render puts the
\* preset's three values, verbatim, in the three fields; and a spectrum call
\* is only made by the Generate handler.
C9_DemoOnlyPrefills ==
    [][/\ action' = "demo" =>
            /\ called' = "none" /\ UNCHANGED data
            /\ \E name \in DOMAIN DEMO_SCENARIOS :
                 selected_demo' = DEMO_SCENARIOS[name]
       /\ \A name \in DOMAIN DEMO_SCENARIOS :
            (action' = "rerun" /\ selected_demo = DEMO_SCENARIOS[name]) =>
              /\ called' = "none" /\ UNCHANGED data
              /\ JStr(business_type') = DEMO_SCENARIOS[name].c[1]
              /\ JStr(current_rule') = DEMO_SCENARIOS[name].c[2]
              /\ JStr(scenario') = DEMO_SCENARIOS[name].c[3]
       /\ (action' = "rerun"
           /\ selected_demo = DEMO_SCENARIOS["Healthcare Staffing Shortage"]) =>
            business_type' = "Regional Hospital Network"
       /\ called' = "spectrum_schema" => action' = "generate"]_vars

\* C9 witness: the fields as the Healthcare preset's render left them.
C9_Witness ==
    /\ action = "rerun"
    /\ phase = 1
    /\ business_type = "Regional Hospital Network"
    /\ scenario = "Flu outbreak causes 30% staff shortage. Emergency room wait times hit 8 hours. Administration considers suspending ratio requirements."

ContextSet == business_context # JObj(<<>>, <<>>)

\* C11 as stated: once business_context, spectrum_data, simulation_data or
\* analysis_data is set, the only step that changes it is Start New Scenario.
C11_OnlyResetChanges ==
    [][/\ (ContextSet /\ business_context' # business_context)
            => action' = "reset"
       /\ (spectrum_data # None /\ spectrum_data' # spectrum_data)
            => action' = "reset"
       /\ (simulation_data # None /\ simulation_data' # simulation_data)
            => action' = "reset"
       /\ (analysis_data # None /\ analysis_data' # analysis_data)
            => action' = "reset"]_vars

\* C11: a result that is set changes only by being cleared by Start New
\* Scenario; business_context does not change from Phase 2 on (Start New
\* Scenario keeps it too) and is only ever replaced as a whole, by the
\* Phase 1 handler that opens the next scenario run.
C11_SetOnceUntilNextScenario ==
    [][/\ spectrum_data # None
            => \/ spectrum_data' = spectrum_data
               \/ action' = "reset" /\ spectrum_data' = None
       /\ simulation_data # None
            => \/ simulation_data' = simulation_data
               \/ action' = "reset" /\ simulation_data' = None
       /\ analysis_data # None
            => \/ analysis_data' = analysis_data
               \/ action' = "reset" /\ analysis_data' = None
       /\ phase >= 2 => business_context' = business_context
       /\ business_context' # business_context
            => /\ action' = "generate"
               /\ phase = 1
               /\ phase' = 2
               /\ business_context'.ks =
                    <<"business_type", "scenario", "current_rule">>]_vars

\* A failed analysis call in Phase 3, with the context, the spectrum and
\* the simulation of the run in place.
C11_Witness ==
    /\ action = "analyze"
    /\ result = None
    /\ ContextSet
    /\ spectrum_data # None
    /\ simulation_data # None

C14_NoEmptyFieldReachesSpectrum ==
    /\ called = "spectrum_schema"
         => /\ messages.business_type # ""
            /\ messages.current_rule # ""
            /\ messages.scenario # ""
    /\ phase >= 2
         => /\ Get(business_context, "business_type") # JStr("")
            /\ Get(business_context, "current_rule") # JStr("")
            /\ Get(business_context, "scenario") # JStr("")

\* C13: with two sessions taking turns, a step of the session being served
\* leaves the state of every other session as it was (its phase,
\* business_context, spectrum_data, simulation_data and analysis_data
\* among it), and when the server turns to a session, the session is in
\* the state its own last step left it in.
C13_SessionsIsolated ==
    [][\A s \in Sessions :
         (s # current \/ action' = "switch") => View(s)' = View(s)]_vars

\* One session has reached Phase 3 with its analysis while the other has
\* gone its own way to Phase 2.
C13_Witness ==
    /\ DOMAIN others # {}
    /\ phase = 3
    /\ analysis_data # None
    /\ \E s \in DOMAIN others :
         others[s].phase = 2 /\ others[s].spectrum_data # None

\* C15: when CEREBRAS_API_KEY is missing or empty, the run halts in
\* get_cerebras_client: the session never gets a phase (nor any other
\* key), the only step there is is the halting run, no step of the wizard
\* is enabled and no gateway call is made.
C15_MissingKeyHalts ==
    ~Truthy(api_key)
      => /\ pc \in {"start", "stopped"}
         /\ action \in {"init", "halt"}
         /\ phase = NoPhase
         /\ business_context = None
         /\ called = "none"
         /\ requests = 0
         /\ ~ENABLED Next

\* The run has halted on an empty credential.
C15_Witness ==
    /\ api_key = JStr("")
    /\ pc = "stopped"
    /\ action = "halt"

\* C16: the step from Phase 1 to Phase 2 stores the result of its call and
\* a business_context made of the business_type, current_rule and scenario
\* that the call sent; a simulation call is built from the business_context
\* and the spectrum_data stored at that moment, an analysis call from the
\* stored business_context and simulation_data (which, by C11, are those
\* of the scenario run under way).
C16_CallsUseStoredContext ==
    [][/\ (action' = "generate" /\ phase' = 2)
            => /\ called' = "spectrum_schema"
               /\ spectrum_data' = result'
               /\ business_context' =
                    JObj(<<"business_type", "scenario", "current_rule">>,
                         <<JStr(messages'.business_type),
                           JStr(messages'.scenario),
                           JStr(messages'.current_rule)>>)
       /\ called' = "simulation_schema"
            => /\ phase = 2
               /\ messages'.business_type = Get(business_context, "business_type")
               /\ messages'.scenario = Get(business_context, "scenario")
               /\ messages'.current_rule = Get(business_context, "current_rule")
               /\ messages'.agents = dumps(Get(spectrum_data, "agent_spectrum"))
               /\ messages'.prior =
                    Get(Get(Get(spectrum_data, "critical_conflict"),
                            "psychological_prior"), "name")
               /\ messages'.constraint =
                    Get(Get(Get(spectrum_data, "critical_conflict"),
                            "operational_constraint"), "name")
               /\ business_context' = business_context
               /\ spectrum_data' = spectrum_data
       /\ called' = "analysis_schema"
            => /\ phase = 3
               /\ messages'.business_type = Get(business_context, "business_type")
               /\ messages'.simulation = dumps(simulation_data)
               /\ business_context' = business_context
               /\ simulation_data' = simulation_data]_vars

\* A simulation call that succeeded on a context typed by the user.
C16_Witness ==
    /\ called = "simulation_schema"
    /\ phase = 3
    /\ messages.business_type = JStr("Corner bakery")
    /\ messages.scenario = JStr("Cash only")
    /\ Get(business_context, "scenario") = JStr("Cash only")

\* The scenario run under way began with three non-empty inputs.
NonEmptyInputs ==
    /\ Get(business_context, "business_type") # JStr("")
    /\ Get(business_context, "current_rule") # JStr("")
    /\ Get(business_context, "scenario") # JStr("")

\* C17: a scenario run that began with non-empty inputs never gets stuck:
\* whenever its page of Phase 2 or of Phase 3 waits for the user, it
\* offers the action that advances the run (Run Simulation; Generate
\* Analysis, or the footer once the analysis is stored).
C17_NeverStuck ==
    (pc = "idle" /\ phase >= 2 /\ NonEmptyInputs)
      => /\ phase = 2 => Phase2Ready
         /\ phase = 3 => Phase3Ready /\ (AnalysisPending \/ FooterReady)

\* C18: the stored data agrees with the phase: phase is 1, 2 or 3; from
\* Phase 2 on spectrum_data is set and business_context has its three
\* keys; in Phase 3 simulation_data is set; analysis_data is set only in
\* Phase 3; in Phase 1 the three results are unset.
C18_DataMatchesPhase ==
    /\ phase \in {1, 2, 3}
    /\ phase >= 2
         => /\ Truthy(spectrum_data)
            /\ HasKeys(business_context,
                       {"business_type", "current_rule", "scenario"})
    /\ phase = 3 => Truthy(simulation_data)
    /\ analysis_data # None => phase = 3
    /\ phase = 1
         => /\ spectrum_data = None
            /\ simulation_data = None
            /\ analysis_data = None

\* Back in Phase 1 after a finished scenario run.
C18_Witness ==
    /\ action = "reset"
    /\ phase = 1
    /\ ContextSet
    /\ analysis_calls = 0

\* C19: a download or a Start New Scenario is only taken from a state in
\* Phase 3 with analysis_data set; the report handed out has a spectrum, a
\* simulation and an analysis that are not null; and the phase goes back
\* to 1 only by Start New Scenario, so only after an analysis was stored.
C19_FooterOnlyAfterAnalysis ==
    [][/\ action' \in {"export", "reset"}
            => phase = 3 /\ Truthy(analysis_data)
       /\ action' = "export"
            => LET r == loads(download')
               IN  /\ r.ok
                   /\ Get(r.v, "spectrum") # JNull
                   /\ Get(r.v, "simulation") # JNull
                   /\ Get(r.v, "analysis") # JNull
       /\ (phase # 1 /\ phase' = 1)
            => action' = "reset" /\ phase = 3 /\ Truthy(analysis_data)]_vars

\* A report downloaded in a run whose first analysis call failed and whose
\* second one was stored.
C19_Witness ==
    /\ action = "export"
    /\ phase = 3
    /\ Truthy(analysis_data)
    /\ analysis_calls = 2
    /\ analysis_stored = 1

\* C20: selected_demo is set only by a demo button in Phase 1; the run that
\* follows makes it the value of the three fields and clears it in the
\* same step; whenever the page waits for the user, and in Phase 2 and 3,
\* it is None; a run that finds it None prefills nothing.
C20_DemoConsumedOnce ==
    [][/\ (selected_demo' # selected_demo /\ selected_demo' # None)
            => action' = "demo" /\ phase = 1 /\ pc' = "rerun"
       /\ Truthy(selected_demo)
            => /\ action' = "rerun"
               /\ selected_demo' = None
               /\ business_type' = Get(selected_demo, "business_type").s
               /\ current_rule' = Get(selected_demo, "current_rule").s
               /\ scenario' = Get(selected_demo, "scenario").s
       /\ pc' = "idle" => selected_demo' = None
       /\ phase' >= 2 => selected_demo' = None
       /\ (prefilled' /\ ~prefilled) => Truthy(selected_demo)]_vars

\* The page after the run that consumed a preset.
C20_Witness ==
    /\ action = "rerun"
    /\ pc = "idle"
    /\ prefilled
    /\ selected_demo = None
    /\ business_type = "Mid-sized Regional Logistics/Trucking Company"

====
